---- MODULE Spec2Model ----
(***************************************************************************)
(* Model of flux-apps-dns-manager: the reconciliation loop of              *)
(* src/services/appsDnsManager.js, the inventory / endpoint resolver of    *)
(* src/services/fluxApi.js and the DNS gateway client of                   *)
(* src/services/dnsGateway.js.                                             *)
(*                                                                         *)
(* JavaScript strings that the code takes apart (application names,        *)
(* containerData, addresses) are modelled as sequences of tokens, so that  *)
(* substring, prefix, split and replace are computed and not assumed.      *)
(* Time is counted in units of 30 minutes.                                 *)
(***************************************************************************)
EXTENDS Integers, Sequences, FiniteSets, TLC

(***************************************************************************)
(* Bounds of the model                                                     *)
(***************************************************************************)
\* Date.now() ranges over 0..MaxTime
MaxTime == 2
\* longest inventory the directory service answers with
MaxInventory == 2
\* longest IP array handed to hasIPsChanged in SpecIPs
MaxIPs == 3
\* invocations of runProcessingLoop that the model lets be in progress at once
MaxInvocations == 2

(***************************************************************************)
(* Configuration (config/default.js, config/gamesConfig.js)                *)
(***************************************************************************)
\* config.games.deletionGracePeriodMs = 60 * 60 * 1000, in units of 30 minutes
GracePeriod == 2

\* config.dns.zones, zone names abbreviated
Zones ==
  << [name |-> "app.runonflux.io", ttl |-> 300],
     [name |-> "app2.runonflux.io", ttl |-> 300] >>

ZoneNames == { Zones[i].name : i \in 1..Len(Zones) }

\* config.games.gameTypes, abbreviated to two prefixes ("mc" for minecraft)
GameTypes == << <<"m", "c">>, <<"a", "r", "k">> >>

\* The deployment's gateway configuration: enabled flag, endpoint, and
\* whether the certificate, key and CA files can be read.
GatewayConfigs ==
  { [enabled |-> FALSE, endpoint |-> FALSE, readable |-> FALSE],
    [enabled |-> TRUE,  endpoint |-> FALSE, readable |-> FALSE],
    [enabled |-> TRUE,  endpoint |-> TRUE,  readable |-> FALSE],
    [enabled |-> TRUE,  endpoint |-> TRUE,  readable |-> TRUE] }

(***************************************************************************)
(* Strings as token sequences                                              *)
(***************************************************************************)
Alphabet ==
  << "a", "b", "c", "d", "e", "f", "g", "h", "i", "j", "k", "l", "m",
     "n", "o", "p", "q", "r", "s", "t", "u", "v", "w", "x", "y", "z" >>

UpperAlphabet ==
  << "A", "B", "C", "D", "E", "F", "G", "H", "I", "J", "K", "L", "M",
     "N", "O", "P", "Q", "R", "S", "T", "U", "V", "W", "X", "Y", "Z" >>

\* String.prototype.toLowerCase on one character
LowerChar(ch) ==
  IF \E i \in 1..Len(UpperAlphabet) : UpperAlphabet[i] = ch
    THEN Alphabet[CHOOSE i \in 1..Len(UpperAlphabet) : UpperAlphabet[i] = ch]
    ELSE ch

toLowerCase(s) == [i \in 1..Len(s) |-> LowerChar(s[i])]

\* String.prototype.startsWith
startsWith(s, p) == Len(p) <= Len(s) /\ SubSeq(s, 1, Len(p)) = p

\* String.prototype.includes
includes(s, sub) ==
  \E i \in 1..(Len(s) + 1) :
     i + Len(sub) - 1 <= Len(s) /\ SubSeq(s, i, i + Len(sub) - 1) = sub

\* s.split(':')[0]: the part before the first colon
SplitColonFirst(s) ==
  IF \E i \in 1..Len(s) : s[i] = ":"
    THEN SubSeq(s, 1, (CHOOSE i \in 1..Len(s) :
                          s[i] = ":" /\ \A j \in 1..(i - 1) : s[j] # ":") - 1)
    ELSE s

\* s.replace(/\[|\]/g, '')
StripBrackets(s) == SelectSeq(s, LAMBDA t : t # "[" /\ t # "]")

\* JavaScript null, and truthiness of a string-or-null value
Null == << "<null>" >>
Truthy(v) == v # Null /\ v # << >>

(***************************************************************************)
(* fluxApi.js: classifier                                                  *)
(***************************************************************************)
GMarker == <<"g", ":">>

\* containerData && containerData.includes('g:'); an absent containerData is << >>
HasGMarker(containerData) == containerData # << >> /\ includes(containerData, GMarker)

isGModeApp(appSpec) ==
  IF appSpec.version <= 3
    THEN HasGMarker(appSpec.containerData)
    ELSE IF appSpec.hasCompose
      THEN \E i \in 1..Len(appSpec.compose) : HasGMarker(appSpec.compose[i].containerData)
      ELSE FALSE

\* isGameApp that returns after comparing with the first prefix of the list
isGameAppFirstPrefixOnly(appName, gameTypes) ==
  Len(gameTypes) > 0 /\ startsWith(toLowerCase(appName), toLowerCase(gameTypes[1]))

isGameApp(appName, gameTypes) ==
  \E i \in 1..Len(gameTypes) :
     startsWith(toLowerCase(appName), toLowerCase(gameTypes[i]))

filterGameApps(appSpecs, gameTypes) ==
  SelectSeq(appSpecs, LAMBDA app : isGModeApp(app) /\ isGameApp(app.name, gameTypes))

(***************************************************************************)
(* The directory service's applications                                    *)
(***************************************************************************)
NameMc  == <<"M", "c", "1">>
NameArk == <<"a", "r", "k">>
NameWeb == <<"w", "e", "b">>

AppSpecs ==
  { [name |-> NameMc, version |-> 3, containerData |-> <<"g", ":", "/", "d">>,
     hasCompose |-> FALSE, compose |-> << >>],
    [name |-> NameArk, version |-> 4, containerData |-> << >>, hasCompose |-> TRUE,
     compose |-> << [containerData |-> <<"r", ":", "/", "d">>],
                    [containerData |-> <<"g", ":", "/", "d">>] >>],
    [name |-> NameWeb, version |-> 4, containerData |-> << >>, hasCompose |-> TRUE,
     compose |-> << [containerData |-> <<"g", ":", "/", "d">>] >>] }

AppNames == { s.name : s \in AppSpecs }

\* sequences of length n over S without repetition
RECURSIVE DistinctSeqs(_, _)
DistinctSeqs(S, n) ==
  IF n = 0 THEN { << >> }
  ELSE { Append(q, x) : <<q, x>> \in
           { <<q, x>> \in DistinctSeqs(S, n - 1) \X S :
                \A i \in 1..Len(q) : q[i] # x } }

\* identifiers are unique within the network (spec, section 3)
Inventories == UNION { DistinctSeqs(AppSpecs, n) : n \in 0..MaxInventory }

\* what axios.get of /apps/globalappsspecifications can give
InventoryResponses ==
  { [threw |-> TRUE, status |-> "none", hasData |-> FALSE, data |-> << >>],
    [threw |-> FALSE, status |-> "error", hasData |-> FALSE, data |-> << >>],
    [threw |-> FALSE, status |-> "success", hasData |-> FALSE, data |-> << >>] }
  \cup { [threw |-> FALSE, status |-> "success", hasData |-> TRUE, data |-> d] :
           d \in Inventories }

getAppSpecifications(response) ==
  IF response.threw THEN << >>
  ELSE IF response.status = "success"
    THEN (IF response.hasData THEN response.data ELSE << >>)
    ELSE << >>

(***************************************************************************)
(* fluxApi.js: partitioned endpoint resolver                               *)
(***************************************************************************)
\* position of a lower-case letter in the alphabet, 0 for any other character
LetterIndex(ch) ==
  IF \E i \in 1..Len(Alphabet) : Alphabet[i] = ch
    THEN CHOOSE i \in 1..Len(Alphabet) : Alphabet[i] = ch
    ELSE 0

InRange(ch, lo, hi) ==
  LetterIndex(ch) # 0 /\ LetterIndex(lo) <= LetterIndex(ch) /\ LetterIndex(ch) <= LetterIndex(hi)

\* getFdmIndex without toLowerCase: the ranges are matched against the character
\* as it is written
getFdmIndexCaseSensitive(appName) ==
  LET firstLetter == SubSeq(appName, 1, IF Len(appName) > 0 THEN 1 ELSE 0)
  IN  IF firstLetter = << >> THEN 1
      ELSE IF InRange(firstLetter[1], "h", "n") THEN 2
      ELSE IF InRange(firstLetter[1], "o", "u") THEN 3
      ELSE IF InRange(firstLetter[1], "v", "z") THEN 4
      ELSE 1

getFdmIndex(appName) ==
  LET firstLetter == toLowerCase(SubSeq(appName, 1, IF Len(appName) > 0 THEN 1 ELSE 0))
  IN  IF firstLetter = << >> THEN 1
      ELSE IF InRange(firstLetter[1], "h", "n") THEN 2
      ELSE IF InRange(firstLetter[1], "o", "u") THEN 3
      ELSE IF InRange(firstLetter[1], "v", "z") THEN 4
      ELSE 1

\* config.fdm.baseUrlPattern.replace('{index}', index): a TypeError when the
\* configuration has no top-level fdm section; the URL is given by its index
getFdmBaseUrl(cfg, appName) ==
  IF cfg.fdm
    THEN [threw |-> FALSE, index |-> getFdmIndex(appName)]
    ELSE [threw |-> TRUE, index |-> 0]

Addr1     == << "10.0.0.1" >>
Addr1Port == << "10.0.0.1", ":", "16127" >>
Addr2     == << "10.0.0.2" >>
Addr2Br   == << "[", "10.0.0.2", "]" >>

FdmIpLists == { << >>, <<Addr1>>, <<Addr1Port, Addr2>>, <<Addr2>>, <<Addr2Br>> }

\* what axios.get of <shard>/appips/<app> can give; httpStatus 0 is an error
\* without a response (timeout, connection refused)
FdmResponses ==
  { [threw |-> TRUE, httpStatus |-> h, status |-> "none", hasData |-> FALSE, ips |-> << >>] :
      h \in {503, 404, 500, 0} }
  \cup { [threw |-> FALSE, httpStatus |-> 200, status |-> "error", hasData |-> FALSE, ips |-> << >>],
         [threw |-> FALSE, httpStatus |-> 200, status |-> "success", hasData |-> FALSE, ips |-> << >>] }
  \cup { [threw |-> FALSE, httpStatus |-> 200, status |-> "success", hasData |-> TRUE, ips |-> l] :
           l \in FdmIpLists }

getAppMasterIpFromFdm(cfg, appName, response) ==
  IF getFdmBaseUrl(cfg, appName).threw
    THEN [threw |-> TRUE, value |-> Null]
    ELSE IF response.threw
      THEN [threw |-> FALSE, value |-> Null]
      ELSE IF response.status = "success" /\ response.hasData /\ Len(response.ips) > 0
        THEN [threw |-> FALSE, value |-> SplitColonFirst(response.ips[1])]
        ELSE [threw |-> FALSE, value |-> Null]

(***************************************************************************)
(* State                                                                   *)
(***************************************************************************)
VARIABLES
  config,                 \* the loaded configuration: fdm section present?, dnsGateway
  dnsGatewayClient,       \* dnsGateway.js: "null" or "client"
  pollingInterval,        \* "null" or "set"
  isRunning,              \* the guard
  pc,                     \* per invocation of runProcessingLoop: its position
  local,                  \* per invocation: matchedApps still to process, currentSeenApps,
                          \* and the cleanMasterIP of its latest processApp (Null: none)
  appsDNSState,           \* app -> zone -> IPs last written
  lastSeenApps,           \* insertion-ordered set of the last completed iteration
  appLastSeenTimestamps,  \* app -> time it was first found missing
  now,                    \* Date.now()
  gatewayCalls,           \* the DNS Record Client calls made by the latest step
  probe                   \* a pure function's arguments and result (SpecIPs)

caches == <<appsDNSState, lastSeenApps, appLastSeenTimestamps>>
vars == <<config, dnsGatewayClient, pollingInterval, isRunning, pc, local,
          appsDNSState, lastSeenApps, appLastSeenTimestamps, now,
          gatewayCalls, probe>>

\* The invocations of runProcessingLoop that can be in progress at once; a new
\* invocation takes the lowest free slot.
Invocations == 1..MaxInvocations

\* Map and insertion-ordered Set of JavaScript
EmptyMap == [x \in {} |-> {}]
MapSet(m, k, v) == [x \in (DOMAIN m) \cup {k} |-> IF x = k THEN v ELSE m[x]]
MapDelete(m, k) == [x \in (DOMAIN m) \ {k} |-> m[x]]
SetHas(q, x) == \E i \in 1..Len(q) : q[i] = x
SetAdd(q, x) == IF SetHas(q, x) THEN q ELSE Append(q, x)
Elems(q) == { q[i] : i \in 1..Len(q) }

NoLocals == [matchedApps |-> << >>, currentSeenApps |-> << >>, cleanMasterIP |-> Null]

(***************************************************************************)
(* dnsGateway.js                                                           *)
(***************************************************************************)
initializeClient(cfg) ==
  IF ~cfg.dnsGateway.enabled THEN "null"
  ELSE IF ~cfg.dnsGateway.endpoint THEN "null"
  ELSE IF cfg.dnsGateway.readable THEN "client" ELSE "null"

isReady == dnsGatewayClient # "null" /\ config.dnsGateway.enabled

cleanIPs(ips) == [i \in 1..Len(ips) |-> StripBrackets(SplitColonFirst(ips[i]))]

\* config.dns.ttl: the configuration has no such key
ConfigDnsTtl == [defined |-> FALSE, value |-> 0]

\* createGameDNSRecords without the isReady test: the request is posted whatever
\* the state of the client
createGameDNSRecordsNoReadyCheck(appName, serverIPs, zone, ttl, outcome) ==
  IF Len(serverIPs) = 0
    THEN [op |-> "create", app |-> appName, zone |-> zone, content |-> << >>,
          ttl |-> ConfigDnsTtl, sent |-> FALSE, ok |-> FALSE]
  ELSE [op |-> "create", app |-> appName, zone |-> zone, content |-> cleanIPs(serverIPs),
        ttl |-> ConfigDnsTtl, sent |-> TRUE, ok |-> (outcome = "ok")]

\* One call of createGameDNSRecords. outcome is what the gateway answers the POST
\* with ("ok" or "fail"). The record tells whether a request was sent, its body,
\* and whether the call returned (ok) or threw.
createGameDNSRecords(appName, serverIPs, zone, ttl, outcome) ==
  IF ~isReady
    THEN [op |-> "create", app |-> appName, zone |-> zone, content |-> << >>,
          ttl |-> ConfigDnsTtl, sent |-> FALSE, ok |-> FALSE]
  ELSE IF Len(serverIPs) = 0
    THEN [op |-> "create", app |-> appName, zone |-> zone, content |-> << >>,
          ttl |-> ConfigDnsTtl, sent |-> FALSE, ok |-> FALSE]
  ELSE [op |-> "create", app |-> appName, zone |-> zone, content |-> cleanIPs(serverIPs),
        ttl |-> ConfigDnsTtl, sent |-> TRUE, ok |-> (outcome = "ok")]

\* deleteGameDNSRecords without the test for status 404: every error of the
\* DELETE is thrown
deleteGameDNSRecordsStrict(appName, zone, outcome) ==
  IF ~isReady
    THEN [op |-> "delete", app |-> appName, zone |-> zone, content |-> << >>,
          ttl |-> ConfigDnsTtl, sent |-> FALSE, ok |-> FALSE]
  ELSE [op |-> "delete", app |-> appName, zone |-> zone, content |-> << >>,
        ttl |-> ConfigDnsTtl, sent |-> TRUE, ok |-> (outcome = "ok")]

\* One call of deleteGameDNSRecords. outcome is the gateway's answer to the
\* DELETE: "ok", "404" or "fail".
deleteGameDNSRecords(appName, zone, outcome) ==
  IF ~isReady
    THEN [op |-> "delete", app |-> appName, zone |-> zone, content |-> << >>,
          ttl |-> ConfigDnsTtl, sent |-> FALSE, ok |-> FALSE]
  ELSE [op |-> "delete", app |-> appName, zone |-> zone, content |-> << >>,
        ttl |-> ConfigDnsTtl, sent |-> TRUE, ok |-> (outcome \in {"ok", "404"})]

\* One call of getGameDNSRecords. outcome is the gateway's answer to the GET:
\* "ok", "404" (null is returned) or "fail".
getGameDNSRecords(appName, zone, outcome) ==
  IF ~isReady
    THEN [op |-> "get", app |-> appName, zone |-> zone, content |-> << >>,
          ttl |-> ConfigDnsTtl, sent |-> FALSE, ok |-> FALSE]
  ELSE [op |-> "get", app |-> appName, zone |-> zone, content |-> << >>,
        ttl |-> ConfigDnsTtl, sent |-> TRUE, ok |-> (outcome \in {"ok", "404"})]

\* what the gateway can answer a request with
GatewayOutcomes == {"ok", "404", "fail"}

(***************************************************************************)
(* appsDnsManager.js: state store                                          *)
(***************************************************************************)
\* hasIPsChanged that reports a change whatever the cache holds
hasIPsChangedAlways(st, appName, currentIPs, zone) == TRUE

\* hasIPsChanged that compares the arrays element by element, in order
hasIPsChangedOrdered(st, appName, currentIPs, zone) ==
  IF appName \notin DOMAIN st THEN TRUE
  ELSE IF zone \notin DOMAIN st[appName] THEN TRUE
  ELSE st[appName][zone] # currentIPs

\* hasIPsChanged without the membership loop: the sizes alone are compared
hasIPsChangedSizeOnly(st, appName, currentIPs, zone) ==
  IF appName \notin DOMAIN st THEN TRUE
  ELSE IF zone \notin DOMAIN st[appName] THEN TRUE
  ELSE Cardinality(Elems(st[appName][zone])) # Cardinality(Elems(currentIPs))

\* hasIPsChanged that looks at the application's entry of any zone: once one zone
\* is cached, nothing is reported as changed
hasIPsChangedAppOnly(st, appName, currentIPs, zone) ==
  IF appName \notin DOMAIN st THEN TRUE
  ELSE DOMAIN st[appName] = {}

\* st is the appsDNSState map the call reads
hasIPsChanged(st, appName, currentIPs, zone) ==
  IF appName \notin DOMAIN st THEN TRUE
  ELSE IF zone \notin DOMAIN st[appName] THEN TRUE
  ELSE LET cachedIPsSet  == Elems(st[appName][zone])
           currentIPsSet == Elems(currentIPs)
       IN  IF Cardinality(cachedIPsSet) # Cardinality(currentIPsSet) THEN TRUE
           ELSE IF \E ip \in currentIPsSet : ip \notin cachedIPsSet THEN TRUE
           ELSE FALSE

updateDNSState(st, appName, ips, zone) ==
  LET appState == IF appName \in DOMAIN st THEN st[appName] ELSE EmptyMap
  IN  MapSet(st, appName, MapSet(appState, zone, ips))

(***************************************************************************)
(* appsDnsManager.js: processApp                                           *)
(***************************************************************************)
CreateOutcomes == [ZoneNames -> {"ok", "fail"}]

\* the loop over config.dns.zones with updateDNSState called before the upsert
\* has returned: the cache is written whatever the gateway answers
RECURSIVE ProcessZonesSpeculative(_, _, _, _, _, _)
ProcessZonesSpeculative(appName, cleanMasterIP, i, st, calls, outcomes) ==
  IF i > Len(Zones) THEN [state |-> st, calls |-> calls]
  ELSE LET zone == Zones[i] IN
    IF ~hasIPsChanged(st, appName, <<cleanMasterIP>>, zone.name)
      THEN ProcessZonesSpeculative(appName, cleanMasterIP, i + 1, st, calls, outcomes)
      ELSE ProcessZonesSpeculative(appName, cleanMasterIP, i + 1,
             updateDNSState(st, appName, <<cleanMasterIP>>, zone.name),
             Append(calls, createGameDNSRecords(appName, <<cleanMasterIP>>, zone.name,
                                                zone.ttl, outcomes[zone.name])),
             outcomes)

\* the loop over config.dns.zones that leaves the loop at the first upsert that
\* fails
RECURSIVE ProcessZonesStopOnFailure(_, _, _, _, _, _)
ProcessZonesStopOnFailure(appName, cleanMasterIP, i, st, calls, outcomes) ==
  IF i > Len(Zones) THEN [state |-> st, calls |-> calls]
  ELSE LET zone == Zones[i] IN
    IF ~hasIPsChanged(st, appName, <<cleanMasterIP>>, zone.name)
      THEN ProcessZonesStopOnFailure(appName, cleanMasterIP, i + 1, st, calls, outcomes)
      ELSE LET call == createGameDNSRecords(appName, <<cleanMasterIP>>, zone.name,
                                            zone.ttl, outcomes[zone.name])
           IN  IF call.ok
                 THEN ProcessZonesStopOnFailure(appName, cleanMasterIP, i + 1,
                        updateDNSState(st, appName, <<cleanMasterIP>>, zone.name),
                        Append(calls, call), outcomes)
                 ELSE [state |-> st, calls |-> Append(calls, call)]

\* the loop over config.dns.zones, from zone i on
RECURSIVE ProcessZones(_, _, _, _, _, _)
ProcessZones(appName, cleanMasterIP, i, st, calls, outcomes) ==
  IF i > Len(Zones) THEN [state |-> st, calls |-> calls]
  ELSE LET zone == Zones[i] IN
    IF ~hasIPsChanged(st, appName, <<cleanMasterIP>>, zone.name)
      THEN ProcessZones(appName, cleanMasterIP, i + 1, st, calls, outcomes)
      ELSE LET call == createGameDNSRecords(appName, <<cleanMasterIP>>, zone.name,
                                            zone.ttl, outcomes[zone.name])
           IN  IF call.ok
                 THEN ProcessZones(appName, cleanMasterIP, i + 1,
                                   updateDNSState(st, appName, <<cleanMasterIP>>, zone.name),
                                   Append(calls, call), outcomes)
                 ELSE ProcessZones(appName, cleanMasterIP, i + 1, st,
                                   Append(calls, call), outcomes)

\* processApp that takes an absent endpoint for the end of the application and
\* drops its cached state
processAppAbsentDropsState(appName, fdmResponse, outcomes) ==
  LET masterIP == getAppMasterIpFromFdm(config, appName, fdmResponse)
  IN  IF masterIP.threw
        THEN [threw |-> TRUE, state |-> appsDNSState, calls |-> << >>]
      ELSE IF ~Truthy(masterIP.value)
        THEN [threw |-> FALSE, state |-> MapDelete(appsDNSState, appName), calls |-> << >>]
      ELSE LET r == ProcessZones(appName, StripBrackets(masterIP.value), 1,
                                 appsDNSState, << >>, outcomes)
           IN  [threw |-> FALSE, state |-> r.state, calls |-> r.calls]

\* The result of processApp: whether it threw, the state map it leaves, the
\* gateway calls it made.
processApp(appName, fdmResponse, outcomes) ==
  LET masterIP == getAppMasterIpFromFdm(config, appName, fdmResponse)
  IN  IF masterIP.threw
        THEN [threw |-> TRUE, state |-> appsDNSState, calls |-> << >>]
      ELSE IF ~Truthy(masterIP.value)
        THEN [threw |-> FALSE, state |-> appsDNSState, calls |-> << >>]
      ELSE LET r == ProcessZones(appName, StripBrackets(masterIP.value), 1,
                                 appsDNSState, << >>, outcomes)
           IN  [threw |-> FALSE, state |-> r.state, calls |-> r.calls]

(***************************************************************************)
(* appsDnsManager.js: handleRemovedApps                                    *)
(***************************************************************************)
\* the gateway's answers to the DELETEs for the removed apps
DeleteOutcomes(removedApps) == [Elems(removedApps) \X ZoneNames -> {"ok", "404", "fail"}]

\* [...lastSeenApps].filter((appName) => !currentSeenApps.has(appName))
RemovedApps(currentSeenApps) ==
  SelectSeq(lastSeenApps, LAMBDA a : ~SetHas(currentSeenApps, a))

\* the loop over config.dns.zones that deletes appName's records
RECURSIVE DeleteZones(_, _, _, _)
DeleteZones(appName, i, calls, outcomes) ==
  IF i > Len(Zones) THEN calls
  ELSE DeleteZones(appName, i + 1,
                   Append(calls, deleteGameDNSRecords(appName, Zones[i].name,
                                                      outcomes[<<appName, Zones[i].name>>])),
                   outcomes)

\* the loop body without a grace period: the records are deleted in the
\* iteration that first finds the app missing
RemovedAppStepNoGrace(appName, st, ts, calls, currentTime, outcomes) ==
  IF appName \notin DOMAIN st \/ DOMAIN st[appName] = {}
    THEN [state |-> st, timestamps |-> ts, calls |-> calls]
  ELSE [state |-> MapDelete(st, appName), timestamps |-> MapDelete(ts, appName),
        calls |-> DeleteZones(appName, 1, calls, outcomes)]

\* the loop body without the test for DNS state of the app
RemovedAppStepNoStateCheck(appName, st, ts, calls, currentTime, outcomes) ==
  IF appName \notin DOMAIN ts
    THEN [state |-> st, timestamps |-> MapSet(ts, appName, currentTime), calls |-> calls]
  ELSE IF currentTime - ts[appName] >= GracePeriod
    THEN [state |-> MapDelete(st, appName), timestamps |-> MapDelete(ts, appName),
          calls |-> DeleteZones(appName, 1, calls, outcomes)]
  ELSE [state |-> st, timestamps |-> ts, calls |-> calls]

\* the loop body with the grace period counted from the start of the process
\* and not from the iteration that finds the app missing
RemovedAppStepEnrolsAtStart(appName, st, ts, calls, currentTime, outcomes) ==
  IF appName \notin DOMAIN st \/ DOMAIN st[appName] = {}
    THEN [state |-> st, timestamps |-> ts, calls |-> calls]
  ELSE IF appName \notin DOMAIN ts
    THEN [state |-> st, timestamps |-> MapSet(ts, appName, 0), calls |-> calls]
  ELSE IF currentTime - ts[appName] >= GracePeriod
    THEN [state |-> MapDelete(st, appName), timestamps |-> MapDelete(ts, appName),
          calls |-> DeleteZones(appName, 1, calls, outcomes)]
  ELSE [state |-> st, timestamps |-> ts, calls |-> calls]

\* the body of the loop over removedApps for one app
RemovedAppStep(appName, st, ts, calls, currentTime, outcomes) ==
  IF appName \notin DOMAIN st \/ DOMAIN st[appName] = {}
    THEN [state |-> st, timestamps |-> ts, calls |-> calls]
  ELSE IF appName \notin DOMAIN ts
    THEN [state |-> st, timestamps |-> MapSet(ts, appName, currentTime), calls |-> calls]
  ELSE IF currentTime - ts[appName] >= GracePeriod
    THEN [state |-> MapDelete(st, appName), timestamps |-> MapDelete(ts, appName),
          calls |-> DeleteZones(appName, 1, calls, outcomes)]
  ELSE [state |-> st, timestamps |-> ts, calls |-> calls]

\* the loop over removedApps, from index i on
RECURSIVE RemovedLoop(_, _, _, _, _, _, _)
RemovedLoop(removedApps, i, st, ts, calls, currentTime, outcomes) ==
  IF i > Len(removedApps) THEN [state |-> st, timestamps |-> ts, calls |-> calls]
  ELSE LET r == RemovedAppStep(removedApps[i], st, ts, calls, currentTime, outcomes)
       IN  RemovedLoop(removedApps, i + 1, r.state, r.timestamps, r.calls,
                       currentTime, outcomes)

\* the final loop left out: a reappeared app keeps its timestamp
ClearReappearedNever(ts, currentSeenApps) == ts

\* the final loop: timestamps of the apps seen in this iteration are cleared
ClearReappeared(ts, currentSeenApps) ==
  [a \in (DOMAIN ts) \ Elems(currentSeenApps) |-> ts[a]]

handleRemovedApps(currentSeenApps, outcomes) ==
  LET currentTime == now
      removedApps == RemovedApps(currentSeenApps)
      r == RemovedLoop(removedApps, 1, appsDNSState, appLastSeenTimestamps, << >>,
                       currentTime, outcomes)
  IN  [state |-> r.state,
       timestamps |-> ClearReappeared(r.timestamps, currentSeenApps),
       calls |-> r.calls]

(***************************************************************************)
(* appsDnsManager.js: runProcessingLoop, start                             *)
(***************************************************************************)
\* runProcessingLoop without its guard
GuardNeverSet == FALSE

\* if (isRunning)
GuardSet == isRunning

\* a skipped call that runs the finally block and so clears the guard
SkipRunClearsGuard ==
  /\ isRunning' = FALSE
  /\ UNCHANGED <<gatewayCalls, pc, local, appsDNSState, lastSeenApps, appLastSeenTimestamps>>

\* log.warn('Processing loop already running, skipping'); return
SkipRun ==
  /\ UNCHANGED <<gatewayCalls, isRunning, pc, local, appsDNSState, lastSeenApps, appLastSeenTimestamps>>

\* isRunning = true, up to the await of getAppSpecifications
BeginRun ==
  /\ \E n \in Invocations :
       /\ pc[n] = "idle"
       /\ \A m \in Invocations : m < n => pc[m] # "idle"
       /\ pc' = [pc EXCEPT ![n] = "fetch"]
       /\ local' = [local EXCEPT ![n] = NoLocals]
  /\ isRunning' = TRUE
  /\ gatewayCalls' = << >>
  /\ UNCHANGED <<appsDNSState, lastSeenApps, appLastSeenTimestamps>>

runProcessingLoop == IF GuardSet THEN SkipRun ELSE BeginRun

\* an iteration that returns without its finally block: the guard stays set
FinishLeavesGuard(n) ==
  /\ isRunning' = isRunning
  /\ pc' = [pc EXCEPT ![n] = "idle"]
  /\ local' = [local EXCEPT ![n] = NoLocals]

\* finally { isRunning = false }
Finish(n) ==
  /\ isRunning' = FALSE
  /\ pc' = [pc EXCEPT ![n] = "idle"]
  /\ local' = [local EXCEPT ![n] = NoLocals]

\* start(): initializeClient, the initial run, setInterval
Start ==
  /\ pollingInterval = "null"
  /\ dnsGatewayClient' = initializeClient(config)
  /\ runProcessingLoop
  /\ pollingInterval' = "set"
  /\ UNCHANGED <<config, now, probe>>

\* the interval timer fires
TimerTick ==
  /\ pollingInterval = "set"
  /\ runProcessingLoop
  /\ UNCHANGED <<config, dnsGatewayClient, pollingInterval, now, probe>>

\* POST /trigger (the server answers requests once it listens, when start() has run)
Trigger ==
  /\ pollingInterval = "set"
  /\ runProcessingLoop
  /\ UNCHANGED <<config, dnsGatewayClient, pollingInterval, now, probe>>

\* an empty inventory taken for 'no app is left': lastSeenApps is replaced
ReturnOnEmptyForgetsSeen(n) ==
  /\ isRunning' = FALSE
  /\ pc' = [pc EXCEPT ![n] = "idle"]
  /\ local' = [local EXCEPT ![n] = NoLocals]
  /\ gatewayCalls' = << >>
  /\ lastSeenApps' = << >>
  /\ UNCHANGED <<appsDNSState, appLastSeenTimestamps>>

\* if (!allAppSpecs.length) { log.warn(...); return; } and the finally block
ReturnOnEmpty(n) ==
  /\ Finish(n)
  /\ gatewayCalls' = << >>
  /\ UNCHANGED <<appsDNSState, lastSeenApps, appLastSeenTimestamps>>

\* getAppSpecifications returns; empty: return through finally; otherwise classify
FetchInventory(n) ==
  /\ pc[n] = "fetch"
  /\ \E response \in InventoryResponses :
       LET allAppSpecs == getAppSpecifications(response)
           matchedApps == filterGameApps(allAppSpecs, GameTypes)
       IN  IF Len(allAppSpecs) = 0
             THEN ReturnOnEmpty(n)
             ELSE /\ pc' = [pc EXCEPT ![n] = "loop"]
                  /\ local' = [local EXCEPT ![n] =
                       [matchedApps |-> [i \in 1..Len(matchedApps) |-> matchedApps[i].name],
                        currentSeenApps |-> << >>, cleanMasterIP |-> Null]]
                  /\ gatewayCalls' = << >>
                  /\ UNCHANGED <<isRunning, appsDNSState, lastSeenApps,
                                 appLastSeenTimestamps>>
  /\ UNCHANGED <<config, dnsGatewayClient, pollingInterval, now, probe>>

\* one turn of the loop over matchedApps, the shard's answer taken from
\* responses; an exception of processApp reaches the catch of runProcessingLoop
\* and ends the iteration through finally
ProcessAppFrom(n, responses) ==
  /\ pc[n] = "loop"
  /\ local[n].matchedApps # << >>
  /\ \E fdmResponse \in responses :
       LET appName == Head(local[n].matchedApps)
           masterIP == getAppMasterIpFromFdm(config, appName, fdmResponse)
       IN  \E outcomes \in IF masterIP.threw \/ ~Truthy(masterIP.value)
                             THEN {[z \in ZoneNames |-> "ok"]} ELSE CreateOutcomes :
             LET r == processApp(appName, fdmResponse, outcomes)
             IN  IF r.threw
                   THEN /\ Finish(n)
                        /\ gatewayCalls' = << >>
                        /\ UNCHANGED appsDNSState
                   ELSE /\ appsDNSState' = r.state
                        /\ gatewayCalls' = r.calls
                        /\ local' = [local EXCEPT ![n] =
                             [matchedApps |-> Tail(local[n].matchedApps),
                              currentSeenApps |-> SetAdd(local[n].currentSeenApps, appName),
                              cleanMasterIP |-> IF Truthy(masterIP.value)
                                                  THEN StripBrackets(masterIP.value)
                                                  ELSE Null]]
                        /\ UNCHANGED <<isRunning, pc>>
  /\ UNCHANGED <<config, dnsGatewayClient, pollingInterval, lastSeenApps,
                 appLastSeenTimestamps, now, probe>>

\* one turn of the loop over matchedApps, the shard answering anything it can
ProcessApp(n) == ProcessAppFrom(n, FdmResponses)

\* the end of an iteration with the observed set added to lastSeenApps, the
\* earlier members kept
HandleRemovedAppsMerging(n) ==
  /\ pc[n] = "loop"
  /\ local[n].matchedApps = << >>
  /\ \E outcomes \in DeleteOutcomes(RemovedApps(local[n].currentSeenApps)) :
       LET r == handleRemovedApps(local[n].currentSeenApps, outcomes)
       IN  /\ appsDNSState' = r.state
           /\ appLastSeenTimestamps' = r.timestamps
           /\ gatewayCalls' = r.calls
  /\ lastSeenApps' = lastSeenApps \o SelectSeq(local[n].currentSeenApps,
                                                LAMBDA a : ~SetHas(lastSeenApps, a))
  /\ Finish(n)
  /\ UNCHANGED <<config, dnsGatewayClient, pollingInterval, now, probe>>

\* after the loop: handleRemovedApps, lastSeenApps = currentSeenApps, finally
HandleRemovedApps(n) ==
  /\ pc[n] = "loop"
  /\ local[n].matchedApps = << >>
  /\ \E outcomes \in DeleteOutcomes(RemovedApps(local[n].currentSeenApps)) :
       LET r == handleRemovedApps(local[n].currentSeenApps, outcomes)
       IN  /\ appsDNSState' = r.state
           /\ appLastSeenTimestamps' = r.timestamps
           /\ gatewayCalls' = r.calls
  /\ lastSeenApps' = local[n].currentSeenApps
  /\ Finish(n)
  /\ UNCHANGED <<config, dnsGatewayClient, pollingInterval, now, probe>>

\* Time passes. Date.now() is read by handleRemovedApps alone, and a unit of time
\* is 30 minutes, so time advances between the steps of iterations only.
AdvanceTime ==
  /\ now < MaxTime
  /\ \A n \in Invocations : pc[n] \in {"idle", "fetch"}
  /\ now' = now + 1
  /\ UNCHANGED <<config, dnsGatewayClient, pollingInterval, isRunning, pc, local,
                 appsDNSState, lastSeenApps, appLastSeenTimestamps, gatewayCalls, probe>>

NoProbe == [entry |-> "noApp", cached |-> << >>, current |-> << >>,
            done |-> FALSE, result |-> FALSE]

\* the module-level state after require(); the configuration is the deployment's
Init ==
  /\ config \in [fdm : BOOLEAN, dnsGateway : GatewayConfigs]
  /\ dnsGatewayClient = "null"
  /\ pollingInterval = "null"
  /\ isRunning = FALSE
  /\ pc = [n \in Invocations |-> "idle"]
  /\ local = [n \in Invocations |-> NoLocals]
  /\ appsDNSState = EmptyMap
  /\ lastSeenApps = << >>
  /\ appLastSeenTimestamps = EmptyMap
  /\ now = 0
  /\ gatewayCalls = << >>
  /\ probe = NoProbe

Next ==
  \/ Start
  \/ TimerTick
  \/ Trigger
  \/ \E n \in Invocations : FetchInventory(n)
  \/ \E n \in Invocations : ProcessApp(n)
  \/ \E n \in Invocations : HandleRemovedApps(n)
  \/ AdvanceTime

Spec == Init /\ [][Next]_vars

\* a step of an iteration in progress: an await of it returns
IterationStep ==
  \E n \in Invocations : FetchInventory(n) \/ ProcessApp(n) \/ HandleRemovedApps(n)

\* Every await of an iteration returns: the inventory and shard requests have a
\* timeout, the gateway client has one, and nothing else suspends an iteration.
\* This is WF_vars(IterationStep) written out: a step of an iteration is
\* enabled exactly when some invocation is not idle.
Fairness ==
  \/ []<>(\A n \in Invocations : pc[n] = "idle")
  \/ []<><<IterationStep>>_vars

\* The service can be started at any time of the clock. A deployment that
\* resolves endpoints and writes records is started at MaxTime and the others at
\* 0, which keeps the behaviours of SpecLive few enough for the search of cycles.
InitLive ==
  /\ config \in [fdm : BOOLEAN, dnsGateway : GatewayConfigs]
  /\ dnsGatewayClient = "null"
  /\ pollingInterval = "null"
  /\ isRunning = FALSE
  /\ pc = [n \in Invocations |-> "idle"]
  /\ local = [n \in Invocations |-> NoLocals]
  /\ appsDNSState = EmptyMap
  /\ lastSeenApps = << >>
  /\ appLastSeenTimestamps = EmptyMap
  /\ now = IF config.fdm /\ initializeClient(config) = "client" THEN MaxTime ELSE 0
  /\ gatewayCalls = << >>
  /\ probe = NoProbe

SpecLive == InitLive /\ [][Next]_vars /\ Fairness

(***************************************************************************)
(* hasIPsChanged on arbitrary IP arrays                                    *)
(***************************************************************************)
IPs == {Addr1, Addr2}
IPSeqs == UNION { [1..n -> IPs] : n \in 0..MaxIPs }
ProbeApp == NameMc
ProbeZone == Zones[1].name
OtherZone == Zones[2].name

\* the state map a probe starts from: no entry for the app, an entry for
\* another zone only, or the cached array
ProbeState(entry, cached) ==
  CASE entry = "noApp"  -> EmptyMap
    [] entry = "noZone" -> updateDNSState(EmptyMap, ProbeApp, cached, OtherZone)
    [] OTHER            -> updateDNSState(EmptyMap, ProbeApp, cached, ProbeZone)

InitIPs ==
  /\ config = [fdm |-> TRUE,
               dnsGateway |-> [enabled |-> TRUE, endpoint |-> TRUE, readable |-> TRUE]]
  /\ dnsGatewayClient = "null"
  /\ pollingInterval = "null"
  /\ isRunning = FALSE
  /\ pc = [n \in Invocations |-> "idle"]
  /\ local = [n \in Invocations |-> NoLocals]
  /\ probe \in [entry : {"noApp", "noZone", "cached"}, cached : IPSeqs, current : IPSeqs,
                done : {FALSE}, result : {FALSE}]
  /\ appsDNSState = ProbeState(probe.entry, probe.cached)
  /\ lastSeenApps = << >>
  /\ appLastSeenTimestamps = EmptyMap
  /\ now = 0
  /\ gatewayCalls = << >>

ApplyHasIPsChanged ==
  /\ ~probe.done
  /\ probe' = [probe EXCEPT !.done = TRUE,
                            !.result = hasIPsChanged(appsDNSState, ProbeApp,
                                                     probe.current, ProbeZone)]
  /\ UNCHANGED <<config, dnsGatewayClient, pollingInterval, isRunning, pc, local,
                 appsDNSState, lastSeenApps, appLastSeenTimestamps, now, gatewayCalls>>

NextIPs == ApplyHasIPsChanged

SpecIPs == InitIPs /\ [][NextIPs]_vars

(***************************************************************************)
(* getFdmIndex on arbitrary application names                              *)
(***************************************************************************)
\* longest application name handed to getFdmIndex in SpecFdm
MaxNameLen == 2

\* leading characters: every letter in both cases, a digit, punctuation
LeadChars == Elems(Alphabet) \cup Elems(UpperAlphabet) \cup {"1", "-", "_", "."}
\* characters after the first
RestChars == {"a", "Z", "1"}

FdmNames ==
  { << >> } \cup
  { <<c>> \o r : c \in LeadChars,
                  r \in UNION { [1..n -> RestChars] : n \in 0..(MaxNameLen - 1) } }

InitFdm ==
  /\ config = [fdm |-> TRUE,
               dnsGateway |-> [enabled |-> TRUE, endpoint |-> TRUE, readable |-> TRUE]]
  /\ dnsGatewayClient = "null"
  /\ pollingInterval = "null"
  /\ isRunning = FALSE
  /\ pc = [n \in Invocations |-> "idle"]
  /\ local = [n \in Invocations |-> NoLocals]
  /\ probe \in [name : FdmNames, done : {FALSE}, result : {0}]
  /\ appsDNSState = EmptyMap
  /\ lastSeenApps = << >>
  /\ appLastSeenTimestamps = EmptyMap
  /\ now = 0
  /\ gatewayCalls = << >>

ApplyGetFdmIndex ==
  /\ ~probe.done
  /\ probe' = [probe EXCEPT !.done = TRUE, !.result = getFdmIndex(probe.name)]
  /\ UNCHANGED <<config, dnsGatewayClient, pollingInterval, isRunning, pc, local,
                 appsDNSState, lastSeenApps, appLastSeenTimestamps, now, gatewayCalls>>

NextFdm == ApplyGetFdmIndex

SpecFdm == InitFdm /\ [][NextFdm]_vars

(***************************************************************************)
(* filterGameApps on arbitrary inventories and prefix lists                *)
(***************************************************************************)
\* longest inventory handed to filterGameApps in SpecFilter
MaxRecords == 2

NameMcLower == <<"m", "c">>
NameAr      == <<"a", "r">>
NameArkX    == <<"A", "R", "K", "x">>
ClassifierNames == {NameMc, NameMcLower, NameWeb, NameAr, NameArkX}

\* the descriptor layouts of an application: version up to 3 with its one
\* containerData, version 4 on with its compose array
ClassifierShapes ==
  { [version |-> 3, containerData |-> <<"g", ":", "/", "d">>, hasCompose |-> FALSE,
     compose |-> << >>],
    [version |-> 3, containerData |-> <<"r", ":", "/", "d">>, hasCompose |-> FALSE,
     compose |-> << >>],
    [version |-> 3, containerData |-> << >>, hasCompose |-> FALSE, compose |-> << >>],
    [version |-> 4, containerData |-> << >>, hasCompose |-> TRUE,
     compose |-> << [containerData |-> <<"r", ":", "/", "d">>],
                    [containerData |-> <<"s", "g", ":", "/", "d">>] >>],
    [version |-> 4, containerData |-> << >>, hasCompose |-> TRUE,
     compose |-> << [containerData |-> <<"r", ":", "/", "d">>], [containerData |-> << >>] >>],
    [version |-> 4, containerData |-> << >>, hasCompose |-> TRUE, compose |-> << >>],
    [version |-> 4, containerData |-> << >>, hasCompose |-> FALSE, compose |-> << >>] }

ClassifierSpecs ==
  { [name |-> n, version |-> sh.version, containerData |-> sh.containerData,
     hasCompose |-> sh.hasCompose, compose |-> sh.compose] :
       n \in ClassifierNames, sh \in ClassifierShapes }

\* inventories of up to maxLen applications with different names
ClassifierInventories(maxLen) ==
  { q \in UNION { DistinctSeqs(ClassifierSpecs, n) : n \in 0..maxLen } :
       \A i, j \in 1..Len(q) : q[i].name = q[j].name => i = j }

\* config.games.gameTypes in both orders, and a prefix written in upper case
GameTypeLists ==
  { GameTypes, << GameTypes[2], GameTypes[1] >>, << <<"A", "R", "K">> >> }

InitFilter ==
  /\ config = [fdm |-> TRUE,
               dnsGateway |-> [enabled |-> TRUE, endpoint |-> TRUE, readable |-> TRUE]]
  /\ dnsGatewayClient = "null"
  /\ pollingInterval = "null"
  /\ isRunning = FALSE
  /\ pc = [n \in Invocations |-> "idle"]
  /\ local = [n \in Invocations |-> NoLocals]
  /\ probe \in [appSpecs : ClassifierInventories(MaxRecords), gameTypes : GameTypeLists,
                done : {FALSE}, result : {<< >>}]
  /\ appsDNSState = EmptyMap
  /\ lastSeenApps = << >>
  /\ appLastSeenTimestamps = EmptyMap
  /\ now = 0
  /\ gatewayCalls = << >>

ApplyFilterGameApps ==
  /\ ~probe.done
  /\ probe' = [probe EXCEPT !.done = TRUE,
                            !.result = filterGameApps(probe.appSpecs, probe.gameTypes)]
  /\ UNCHANGED <<config, dnsGatewayClient, pollingInterval, isRunning, pc, local,
                 appsDNSState, lastSeenApps, appLastSeenTimestamps, now, gatewayCalls>>

NextFilter == ApplyFilterGameApps

SpecFilter == InitFilter /\ [][NextFilter]_vars

(***************************************************************************)
(* getAppMasterIpFromFdm on arbitrary shard answers                        *)
(***************************************************************************)
ResolverNames == AppNames \cup {NameArkX}

\* the configuration is the deployment's: with or without the fdm section
InitResolver ==
  /\ config \in [fdm : BOOLEAN,
                 dnsGateway : {[enabled |-> TRUE, endpoint |-> TRUE, readable |-> TRUE]}]
  /\ dnsGatewayClient = "null"
  /\ pollingInterval = "null"
  /\ isRunning = FALSE
  /\ pc = [n \in Invocations |-> "idle"]
  /\ local = [n \in Invocations |-> NoLocals]
  /\ probe \in [name : ResolverNames, response : FdmResponses, done : {FALSE},
                result : {[threw |-> FALSE, value |-> Null]}]
  /\ appsDNSState = EmptyMap
  /\ lastSeenApps = << >>
  /\ appLastSeenTimestamps = EmptyMap
  /\ now = 0
  /\ gatewayCalls = << >>

ApplyGetAppMasterIpFromFdm ==
  /\ ~probe.done
  /\ probe' = [probe EXCEPT !.done = TRUE,
                            !.result = getAppMasterIpFromFdm(config, probe.name,
                                                             probe.response)]
  /\ UNCHANGED <<config, dnsGatewayClient, pollingInterval, isRunning, pc, local,
                 appsDNSState, lastSeenApps, appLastSeenTimestamps, now, gatewayCalls>>

NextResolver == ApplyGetAppMasterIpFromFdm

SpecResolver == InitResolver /\ [][NextResolver]_vars

(***************************************************************************)
(* The DNS Record Client against a gateway that keeps records              *)
(***************************************************************************)
\* the (app, zone) pairs the client is called for
GatewayKeys == {NameMc, NameArk} \X ZoneNames

\* The gateway's answer to a request for key: a failure of the gateway or the
\* network (fault), 404 for a DELETE or GET of a record it does not hold.
GatewayAnswer(op, records, key, fault) ==
  IF fault THEN "fail"
  ELSE IF op = "create" THEN "ok"
  ELSE IF key \in records THEN "ok" ELSE "404"

NoCall == [op |-> "none", app |-> << >>, zone |-> "", answer |-> "none",
           sent |-> FALSE, ok |-> FALSE]

\* the state once start() has called initializeClient; the gateway holds no
\* record of the service yet
InitGateway ==
  /\ config \in [fdm : {TRUE}, dnsGateway : GatewayConfigs]
  /\ dnsGatewayClient = initializeClient(config)
  /\ pollingInterval = "set"
  /\ isRunning = FALSE
  /\ pc = [n \in Invocations |-> "idle"]
  /\ local = [n \in Invocations |-> NoLocals]
  /\ probe = [records |-> {}, last |-> NoCall]
  /\ appsDNSState = EmptyMap
  /\ lastSeenApps = << >>
  /\ appLastSeenTimestamps = EmptyMap
  /\ now = 0
  /\ gatewayCalls = << >>

\* what a call leaves in probe: the gateway's records and the call's outcome
AfterCall(call, answer, records) ==
  [records |-> records,
   last |-> [op |-> call.op, app |-> call.app, zone |-> call.zone,
             answer |-> IF call.sent THEN answer ELSE "none",
             sent |-> call.sent, ok |-> call.ok]]

ClientCreate ==
  /\ \E key \in GatewayKeys, fault \in BOOLEAN :
       LET answer == GatewayAnswer("create", probe.records, key, fault)
           call == createGameDNSRecords(key[1], <<Addr1>>, key[2], 300, answer)
       IN  probe' = AfterCall(call, answer,
                              IF call.sent /\ answer = "ok"
                                THEN probe.records \cup {key} ELSE probe.records)
  /\ UNCHANGED <<config, dnsGatewayClient, pollingInterval, isRunning, pc, local,
                 appsDNSState, lastSeenApps, appLastSeenTimestamps, now, gatewayCalls>>

ClientDelete ==
  /\ \E key \in GatewayKeys, fault \in BOOLEAN :
       LET answer == GatewayAnswer("delete", probe.records, key, fault)
           call == deleteGameDNSRecords(key[1], key[2], answer)
       IN  probe' = AfterCall(call, answer,
                              IF call.sent /\ answer = "ok"
                                THEN probe.records \ {key} ELSE probe.records)
  /\ UNCHANGED <<config, dnsGatewayClient, pollingInterval, isRunning, pc, local,
                 appsDNSState, lastSeenApps, appLastSeenTimestamps, now, gatewayCalls>>

ClientGet ==
  /\ \E key \in GatewayKeys, fault \in BOOLEAN :
       LET answer == GatewayAnswer("get", probe.records, key, fault)
           call == getGameDNSRecords(key[1], key[2], answer)
       IN  probe' = AfterCall(call, answer, probe.records)
  /\ UNCHANGED <<config, dnsGatewayClient, pollingInterval, isRunning, pc, local,
                 appsDNSState, lastSeenApps, appLastSeenTimestamps, now, gatewayCalls>>

NextGateway == ClientCreate \/ ClientDelete \/ ClientGet

SpecGateway == InitGateway /\ [][NextGateway]_vars

(***************************************************************************)
(* The loop with an application that stays observed at a stable endpoint   *)
(***************************************************************************)
RetryApp == NameMc
RetryIP  == Addr1

InitRetry ==
  /\ Init
  /\ config = [fdm |-> TRUE,
               dnsGateway |-> [enabled |-> TRUE, endpoint |-> TRUE, readable |-> TRUE]]

\* the inventory lists the application, whatever else it lists
FetchInventoryStable(n) ==
  /\ FetchInventory(n)
  /\ pc'[n] = "loop"
  /\ SetHas(local'[n].matchedApps, RetryApp)

\* the answers of the shard from which processApp gets the endpoint RetryIP
StableResponses ==
  { r \in FdmResponses :
      LET masterIP == getAppMasterIpFromFdm(config, RetryApp, r)
      IN  /\ ~masterIP.threw
          /\ Truthy(masterIP.value)
          /\ StripBrackets(masterIP.value) = RetryIP }

\* the shard's answer for the application is the same endpoint every time
ProcessAppStable(n) ==
  /\ pc[n] = "loop"
  /\ local[n].matchedApps # << >>
  /\ ProcessAppFrom(n, IF Head(local[n].matchedApps) = RetryApp
                         THEN StableResponses ELSE FdmResponses)

NextRetry ==
  \/ Start
  \/ TimerTick
  \/ Trigger
  \/ \E n \in Invocations : FetchInventoryStable(n)
  \/ \E n \in Invocations : ProcessAppStable(n)
  \/ \E n \in Invocations : HandleRemovedApps(n)
  \/ AdvanceTime

\* invocation n is about to call processApp for the next matched application
TurnPending(n) == pc[n] = "loop" /\ local[n].matchedApps # << >>

\* an iteration is about to call processApp for the application and will issue
\* the upsert for zone z
UpsertPending(z) ==
  \E n \in Invocations :
     /\ TurnPending(n)
     /\ Head(local[n].matchedApps) = RetryApp
     /\ hasIPsChanged(appsDNSState, RetryApp, <<RetryIP>>, z)

\* a step of processApp in which the upsert for zone z was made and succeeded
UpsertSucceeds(z) ==
  \E n \in Invocations :
     /\ TurnPending(n)
     /\ Head(local[n].matchedApps) = RetryApp
     /\ ProcessAppStable(n)
     /\ \E i \in 1..Len(gatewayCalls') : gatewayCalls'[i].zone = z /\ gatewayCalls'[i].ok

\* start() is called, setInterval keeps firing, every await of an iteration
\* returns, and the upsert for a zone does not fail for ever. The last two
\* conjuncts are WF_vars(\E n : ProcessAppStable(n)) and SF_vars(UpsertSucceeds(z))
\* written out, the enabling condition of each action stated by its guard.
FairnessRetry ==
  /\ WF_vars(Start)
  /\ WF_vars(TimerTick)
  /\ WF_vars(\E n \in Invocations : FetchInventoryStable(n) \/ HandleRemovedApps(n))
  /\ \/ []<>(\A n \in Invocations : ~TurnPending(n))
     \/ []<><<\E n \in Invocations : ProcessAppStable(n)>>_vars
  /\ \A z \in ZoneNames :
        \/ <>[](~UpsertPending(z))
        \/ []<><<UpsertSucceeds(z)>>_vars

SpecRetry == InitRetry /\ [][NextRetry]_vars /\ FairnessRetry

(***************************************************************************)
(* Removal processing over a sequence of observed sets                     *)
(***************************************************************************)
\* the names of the applications that filterGameApps keeps
MatchedNames ==
  { AppSpec.name : AppSpec \in { a \in AppSpecs : isGModeApp(a) /\ isGameApp(a.name, GameTypes) } }

ObservedSets == UNION { DistinctSeqs(MatchedNames, n) : n \in 0..Cardinality(MatchedNames) }

\* appsDNSState after an iteration that observed the apps of q and wrote their
\* endpoint to every zone
WrittenState(q) ==
  [a \in Elems(q) |-> [z \in ZoneNames |-> <<Addr1>>]]

\* the state after a first iteration that wrote every application it observed;
\* probe.reappearedAt is the time an application's pending timestamp was last
\* cancelled, -1 when none ever was
InitRemoval ==
  /\ config = [fdm |-> TRUE,
               dnsGateway |-> [enabled |-> TRUE, endpoint |-> TRUE, readable |-> TRUE]]
  /\ dnsGatewayClient = initializeClient(config)
  /\ pollingInterval = "set"
  /\ isRunning = FALSE
  /\ pc = [n \in Invocations |-> "idle"]
  /\ local = [n \in Invocations |-> NoLocals]
  /\ lastSeenApps \in ObservedSets
  /\ appsDNSState = WrittenState(lastSeenApps)
  /\ appLastSeenTimestamps = EmptyMap
  /\ now = 0
  /\ gatewayCalls = << >>
  /\ probe = [reappearedAt |-> [a \in MatchedNames |-> -1]]

\* the end of an iteration that observed the set current and resolved no new
\* endpoint: handleRemovedApps(currentSeenApps); lastSeenApps = currentSeenApps
ApplyHandleRemovedApps ==
  /\ \E current \in ObservedSets :
       \E outcomes \in DeleteOutcomes(RemovedApps(current)) :
          LET r == handleRemovedApps(current, outcomes)
          IN  /\ appsDNSState' = r.state
              /\ appLastSeenTimestamps' = r.timestamps
              /\ gatewayCalls' = r.calls
              /\ lastSeenApps' = current
              /\ probe' = [reappearedAt |->
                             [a \in MatchedNames |->
                                IF a \in DOMAIN appLastSeenTimestamps /\ SetHas(current, a)
                                  THEN now ELSE probe.reappearedAt[a]]]
  /\ UNCHANGED <<config, dnsGatewayClient, pollingInterval, isRunning, pc, local, now>>

NextRemoval == ApplyHandleRemovedApps \/ AdvanceTime

SpecRemoval == InitRemoval /\ [][NextRemoval]_vars

(***************************************************************************)
(* Properties of the DNS Record Client (SpecGateway)                       *)
(***************************************************************************)
\* C16: a DELETE the gateway answers with 404 counts as a successful delete and
\* any other failure is thrown; so a delete of an (app, zone) that follows a
\* successful delete of the same (app, zone), the gateway answering, succeeds
\* too.
C16_DeleteNotFoundIsSuccess ==
  /\ []((probe.last.op = "delete" /\ probe.last.sent) =>
          /\ probe.last.answer \in {"ok", "404"} => probe.last.ok
          /\ probe.last.answer = "fail" => ~probe.last.ok)
  /\ [][(/\ probe.last.op = "delete" /\ probe.last.ok
          /\ probe'.last.op = "delete" /\ probe'.last.sent
          /\ probe'.last.app = probe.last.app /\ probe'.last.zone = probe.last.zone
          /\ probe'.last.answer # "fail")
            => (probe'.last.answer = "404" /\ probe'.last.ok)]_vars

\* the record of an (app, zone) was deleted and the same delete, repeated, was
\* answered with 404 and succeeded, the gateway still holding other records
C16_Witness ==
  /\ probe.last.op = "delete" /\ probe.last.answer = "404" /\ probe.last.ok
  /\ <<probe.last.app, probe.last.zone>> \notin probe.records
  /\ probe.records # {}

(***************************************************************************)
(* Properties of getAppMasterIpFromFdm (SpecResolver)                      *)
(***************************************************************************)
\* the shard answered with an error, timed out, or answered without addresses
NoEndpointAnswer(response) ==
  \/ response.threw
  \/ response.status # "success"
  \/ ~response.hasData
  \/ Len(response.ips) = 0

\* C15 as stated: getAppMasterIpFromFdm never raises, and returns null when the
\* shard answers 503, 404, any other error, times out, or answers without
\* addresses.
C15_ResolverNeverRaises ==
  probe.done =>
     /\ ~probe.result.threw
     /\ NoEndpointAnswer(probe.response) => probe.result.value = Null

(***************************************************************************)
(* Properties of filterGameApps (SpecFilter)                               *)
(***************************************************************************)
\* the descriptors of an application: the components of a composed one, or its
\* lone containerData
Descriptors(app) ==
  IF app.hasCompose THEN { app.compose[i].containerData : i \in 1..Len(app.compose) }
  ELSE { app.containerData }
\* the descriptor has the marker "g:" somewhere
CarriesMarker(d) == \E i \in 1..(Len(d) - 1) : d[i] = "g" /\ d[i + 1] = ":"
\* name starts with prefix p, letters compared without regard to case
HasPrefixIgnoringCase(name, p) ==
  /\ Len(p) <= Len(name)
  /\ \A i \in 1..Len(p) : LowerChar(name[i]) = LowerChar(p[i])
Qualifies(app, prefixes) ==
  /\ \E d \in Descriptors(app) : CarriesMarker(d)
  /\ \E p \in Elems(prefixes) : HasPrefixIgnoringCase(app.name, p)
\* the orders a list of different prefixes can be given in
PrefixOrders(q) == { p \in [1..Len(q) -> Elems(q)] : Elems(p) = Elems(q) }

\* C14: filterGameApps returns, in inventory order, exactly the applications
\* that carry the marker in a descriptor and whose name starts, case ignored,
\* with a configured prefix; every order of the prefixes gives the same result.
C14_FilterExact ==
  probe.done =>
     /\ probe.result = SelectSeq(probe.appSpecs, LAMBDA app : Qualifies(app, probe.gameTypes))
     /\ \A order \in PrefixOrders(probe.gameTypes) :
           filterGameApps(probe.appSpecs, order) = probe.result

\* of two applications that carry the marker, the composed one whose upper-case
\* name matches the second prefix was kept and the other, matching none,
\* dropped
C14_Witness ==
  /\ probe.done /\ probe.gameTypes = GameTypes
  /\ Len(probe.appSpecs) = 2 /\ Len(probe.result) = 1
  /\ probe.result[1].name = NameArkX /\ probe.result[1].hasCompose
  /\ \E i \in 1..2 : /\ probe.appSpecs[i].name = NameWeb
                       /\ \E d \in Descriptors(probe.appSpecs[i]) : CarriesMarker(d)

(***************************************************************************)
(* Properties of getFdmIndex (SpecFdm)                                     *)
(***************************************************************************)
\* the leading characters of the three named ranges, in both cases
LettersHN == {"h", "i", "j", "k", "l", "m", "n", "H", "I", "J", "K", "L", "M", "N"}
LettersOU == {"o", "p", "q", "r", "s", "t", "u", "O", "P", "Q", "R", "S", "T", "U"}
LettersVZ == {"v", "w", "x", "y", "z", "V", "W", "X", "Y", "Z"}

\* C13: the index is in 1..4 and is fixed by the leading character alone,
\* whatever its case: h..n gives 2, o..u gives 3, v..z gives 4, and a..g, any
\* other character and the empty name give 1; names with the same leading
\* character get the same index.
C13_FdmIndexTotal ==
  probe.done =>
     /\ probe.result \in 1..4
     /\ probe.result =
          (IF probe.name = << >> THEN 1
           ELSE IF probe.name[1] \in LettersHN THEN 2
           ELSE IF probe.name[1] \in LettersOU THEN 3
           ELSE IF probe.name[1] \in LettersVZ THEN 4
           ELSE 1)
     /\ \A other \in FdmNames :
          (other # << >> /\ probe.name # << >> /\ other[1] = probe.name[1])
             => getFdmIndex(other) = probe.result

\* getFdmIndex was applied to a name that starts with an upper-case letter of
\* the last range
C13_Witness ==
  /\ probe.done /\ Len(probe.name) = MaxNameLen
  /\ probe.name[1] = "V" /\ probe.result = 4

(***************************************************************************)
(* Properties of hasIPsChanged (SpecIPs)                                   *)
(***************************************************************************)
\* how often x occurs in the array q
Occurrences(q, x) == Cardinality({ i \in 1..Len(q) : q[i] = x })
SameMultiset(p, q) == \A x \in IPs : Occurrences(p, x) = Occurrences(q, x)
\* the arrays that are q reordered
Reorderings(q) == { p \in [1..Len(q) -> Elems(q)] : SameMultiset(p, q) }

\* C9: hasIPsChanged is false whenever the cached and the current array hold the
\* same elements, and reordering either array never changes its result.
C9_OrderIndependent ==
  (probe.done /\ probe.entry = "cached") =>
     /\ (Elems(probe.cached) = Elems(probe.current) => probe.result = FALSE)
     /\ \A p \in Reorderings(probe.cached), q \in Reorderings(probe.current) :
           hasIPsChanged(ProbeState("cached", p), ProbeApp, q, ProbeZone) = probe.result

\* hasIPsChanged was applied to two different arrays, one the other reordered
C9_Witness ==
  /\ probe.done /\ probe.entry = "cached"
  /\ probe.cached # probe.current
  /\ SameMultiset(probe.cached, probe.current)
  /\ probe.result = FALSE

\* C10 as stated: arrays that differ as multisets are reported as changed.
C10_MultisetDifferenceDetected ==
  (probe.done /\ probe.entry = "cached" /\ ~SameMultiset(probe.cached, probe.current))
     => probe.result = TRUE

\* C10 amended: arrays whose sets of distinct addresses differ are reported as
\* changed; arrays with the same distinct addresses in different multiplicities
\* are reported as unchanged.
C10_SetDifferenceDetected ==
  (probe.done /\ probe.entry = "cached") =>
     /\ (Elems(probe.cached) # Elems(probe.current) => probe.result = TRUE)
     /\ (Elems(probe.cached) = Elems(probe.current)
           /\ ~SameMultiset(probe.cached, probe.current) => probe.result = FALSE)

\* hasIPsChanged was applied to arrays of as many distinct addresses that differ
\* in one of them, and to arrays that differ in multiplicity alone
C10_Witness ==
  /\ probe.done /\ probe.entry = "cached"
  /\ Cardinality(Elems(probe.cached)) = Cardinality(Elems(probe.current))
  /\ Elems(probe.cached) # Elems(probe.current)
  /\ probe.result = TRUE

(***************************************************************************)
(* Properties of the reconciliation loop (Spec)                            *)
(***************************************************************************)
\* the invocations of runProcessingLoop in progress
Running == { n \in Invocations : pc[n] # "idle" }

\* a step of invocation n: its position or its locals change
StepOf(n) == pc'[n] # pc[n] \/ local'[n] # local[n]
\* invocation n returns on an empty inventory
EmptyFetchStep(n) == pc[n] = "fetch" /\ pc'[n] = "idle"
\* invocation n completes processApp for the head of matchedApps
ProcessStep(n) ==
  /\ pc[n] = "loop" /\ local[n].matchedApps # << >>
  /\ pc'[n] = "loop" /\ local'[n].matchedApps = Tail(local[n].matchedApps)
\* invocation n runs handleRemovedApps and completes
HandleStep(n) == pc[n] = "loop" /\ local[n].matchedApps = << >> /\ pc'[n] = "idle"

HasDNSState(a) == a \in DOMAIN appsDNSState /\ DOMAIN appsDNSState[a] # {}
DeletesFor(calls, a) == { i \in 1..Len(calls) : calls[i].op = "delete" /\ calls[i].app = a }
CreatesFor(calls, a, z) ==
  { i \in 1..Len(calls) : calls[i].op = "create" /\ calls[i].app = a /\ calls[i].zone = z }

\* C1: at most one iteration is in progress, the guard is set exactly while one
\* is, and the caches are written by a step of the one running iteration only.
C1_MutualExclusion ==
  /\ [](Cardinality(Running) <= 1 /\ (isRunning <=> Running # {}))
  /\ [][caches' # caches => \E n \in Invocations : Running = {n} /\ StepOf(n)]_vars

\* the service is started and an iteration is in its loop over the apps, which
\* is when a timer tick or a trigger finds the guard set
C1_Witness ==
  /\ pollingInterval = "set" /\ isRunning
  /\ \E n \in Invocations : pc[n] = "loop" /\ local[n].currentSeenApps # << >>
  /\ appsDNSState # EmptyMap

\* C2: while an iteration runs, a step that is not the running iteration's own
\* (a tick or trigger that is skipped) changes neither the guard nor a position
\* nor a cache; an iteration starts only from a call that finds the guard clear,
\* and when the running iteration finishes none is in progress.
C2_SkippedNotQueued ==
  /\ [][(isRunning /\ ~(\E n \in Running : StepOf(n)))
          => UNCHANGED <<isRunning, pc, local, appsDNSState, lastSeenApps,
                         appLastSeenTimestamps>>]_vars
  /\ [][\A n \in Invocations : (pc[n] = "idle" /\ pc'[n] # "idle")
          => (~isRunning /\ isRunning' /\ pc'[n] = "fetch")]_vars
  /\ [][(isRunning /\ ~isRunning') => Running' = {}]_vars

\* a later iteration awaits the inventory while the timer is armed
C2_Witness ==
  /\ pollingInterval = "set" /\ isRunning
  /\ \E n \in Invocations : Running = {n} /\ pc[n] = "fetch"
  /\ lastSeenApps # << >>

\* C3 as stated: once gracePeriod has elapsed since an app was first found
\* missing, a completed iteration has deleted it, so no completed iteration
\* leaves a MissingSince entry that is gracePeriod old or older.
C3_EvictedAfterGrace ==
  [][\A n \in Invocations : HandleStep(n) =>
       \A a \in DOMAIN appLastSeenTimestamps' :
          now - appLastSeenTimestamps'[a] < GracePeriod]_vars

\* C4: a delete is issued only by handleRemovedApps for an app that already has a
\* timestamp that is gracePeriod old; the iteration that first finds an app
\* missing stores the current time, issues no delete for it and keeps its state.
C4_DeleteOnlyAfterGrace ==
  /\ [][\A n \in Invocations : HandleStep(n) =>
          /\ \A i \in 1..Len(gatewayCalls') : gatewayCalls'[i].op = "delete" =>
                /\ gatewayCalls'[i].app \in DOMAIN appLastSeenTimestamps
                /\ now - appLastSeenTimestamps[gatewayCalls'[i].app] >= GracePeriod
          /\ \A a \in (DOMAIN appLastSeenTimestamps') \ (DOMAIN appLastSeenTimestamps) :
                /\ appLastSeenTimestamps'[a] = now
                /\ DeletesFor(gatewayCalls', a) = {}
                /\ a \in DOMAIN appsDNSState /\ a \in DOMAIN appsDNSState'
                /\ appsDNSState'[a] = appsDNSState[a]]_vars
  /\ [][\A n \in Invocations : ProcessStep(n) =>
          \A i \in 1..Len(gatewayCalls') : gatewayCalls'[i].op # "delete"]_vars

\* an iteration has just enrolled an app as missing: its timestamp is the
\* current time, no call was made and its state is still cached
C4_Witness ==
  /\ Running = {} /\ gatewayCalls = << >>
  /\ \E a \in DOMAIN appLastSeenTimestamps :
        appLastSeenTimestamps[a] = now /\ HasDNSState(a) /\ ~SetHas(lastSeenApps, a)

\* C5: no app of the observed set of the last completed iteration has a
\* MissingSince entry.
C5_SeenNotMissing ==
  \A i \in 1..Len(lastSeenApps) : lastSeenApps[i] \notin DOMAIN appLastSeenTimestamps

\* an iteration is about to complete with an app in its observed set that has
\* a pending MissingSince entry
C5_Witness ==
  \E n \in Invocations :
     /\ pc[n] = "loop" /\ local[n].matchedApps = << >>
     /\ \E a \in Elems(local[n].currentSeenApps) : a \in DOMAIN appLastSeenTimestamps

\* C6: a step never enrols an app that has no (or an empty) state entry, and
\* handleRemovedApps issues no delete for such an app.
C6_NeverWrittenNeverTracked ==
  [][\A a \in AppNames : ~HasDNSState(a) =>
       /\ (a \in DOMAIN appLastSeenTimestamps' => a \in DOMAIN appLastSeenTimestamps)
       /\ \A n \in Invocations : HandleStep(n) => DeletesFor(gatewayCalls', a) = {}]_vars

\* handleRemovedApps is about to run with a removed app that was never written
C6_Witness ==
  \E n \in Invocations :
     /\ pc[n] = "loop" /\ local[n].matchedApps = << >>
     /\ \E a \in Elems(lastSeenApps) \ Elems(local[n].currentSeenApps) : ~HasDNSState(a)

\* C7: an iteration that returns on an empty inventory makes no gateway call and
\* leaves appsDNSState, appLastSeenTimestamps and lastSeenApps as they were.
C7_EmptyInventoryNoop ==
  [][\A n \in Invocations : EmptyFetchStep(n) =>
       /\ gatewayCalls' = << >>
       /\ UNCHANGED <<appsDNSState, lastSeenApps, appLastSeenTimestamps>>]_vars

\* an iteration awaits the inventory while all three caches hold entries
C7_Witness ==
  /\ \E n \in Invocations : pc[n] = "fetch"
  /\ appsDNSState # EmptyMap /\ lastSeenApps # << >> /\ appLastSeenTimestamps # EmptyMap

\* the zone's cached IP set differs from the endpoint, or there is none
CacheDiffers(a, z, ip) ==
  \/ a \notin DOMAIN appsDNSState
  \/ z \notin DOMAIN appsDNSState[a]
  \/ Elems(appsDNSState[a][z]) # {ip}

\* C8: processApp with a resolved endpoint issues exactly one upsert for each
\* zone whose cache entry is absent or differs from the endpoint, and no call
\* for a zone whose cached IP set equals the endpoint.
C8_UpsertIffChanged ==
  [][\A n \in Invocations : (ProcessStep(n) /\ local'[n].cleanMasterIP # Null) =>
       LET app == Head(local[n].matchedApps)
           ip  == local'[n].cleanMasterIP
       IN  /\ \A z \in ZoneNames :
                Cardinality(CreatesFor(gatewayCalls', app, z)) =
                   IF CacheDiffers(app, z, ip) THEN 1 ELSE 0
           /\ Len(gatewayCalls') =
                Cardinality({ z \in ZoneNames : CacheDiffers(app, z, ip) })]_vars

\* processApp resolved an endpoint that every zone already has cached and made
\* no gateway call
C8_Witness ==
  \E n \in Invocations :
     /\ pc[n] = "loop" /\ local[n].cleanMasterIP # Null /\ gatewayCalls = << >>
     /\ local[n].currentSeenApps # << >>
     /\ LET a == local[n].currentSeenApps[Len(local[n].currentSeenApps)]
        IN  \A z \in ZoneNames : ~CacheDiffers(a, z, local[n].cleanMasterIP)

\* the cache entry of (a, z) in the state map st; Null when there is none
Entry(st, a, z) == IF a \in DOMAIN st /\ z \in DOMAIN st[a] THEN st[a][z] ELSE Null

\* C11: a step gives (a, z) a new cache entry only with an upsert for (a, z) of
\* that content that was sent and returned successfully, and an upsert for (a, z)
\* that failed leaves the entry of (a, z) as it was; so an entry exists only if
\* an upsert for it has succeeded since the process started.
C11_CacheOnlyAfterSuccess ==
  [][\A a \in AppNames, z \in ZoneNames :
       /\ (Entry(appsDNSState', a, z) # Null
             /\ Entry(appsDNSState', a, z) # Entry(appsDNSState, a, z))
            => \E i \in CreatesFor(gatewayCalls', a, z) :
                  /\ gatewayCalls'[i].sent /\ gatewayCalls'[i].ok
                  /\ gatewayCalls'[i].content = Entry(appsDNSState', a, z)
       /\ (\E i \in CreatesFor(gatewayCalls', a, z) : ~gatewayCalls'[i].ok)
            => Entry(appsDNSState', a, z) = Entry(appsDNSState, a, z)]_vars

\* an upsert of a new endpoint failed for a zone whose entry holds the old one
C11_Witness ==
  \E a \in AppNames, z \in ZoneNames :
     /\ Entry(appsDNSState, a, z) # Null
     /\ \E i \in CreatesFor(gatewayCalls, a, z) :
           /\ gatewayCalls[i].sent /\ ~gatewayCalls[i].ok
           /\ gatewayCalls[i].content # Entry(appsDNSState, a, z)

\* a call of the client that sent no request and threw
FailedUnsent(call) == ~call.sent /\ ~call.ok

\* C12: while the client is not ready, every create, delete and get throws
\* without sending a request, every call an iteration makes is such a call and
\* appsDNSState is empty; the timer stays armed and a step of an iteration in its
\* loop over the apps is never ended by the gateway (it goes on to the next app
\* or completes), the configuration having its fdm section.
C12_NotReadyFailsClosed ==
  /\ [](~isReady =>
          /\ appsDNSState = EmptyMap
          /\ \A i \in 1..Len(gatewayCalls) : FailedUnsent(gatewayCalls[i])
          /\ \A a \in AppNames, z \in ZoneNames, o \in GatewayOutcomes :
                /\ FailedUnsent(createGameDNSRecords(a, <<Addr1>>, z, 300, o))
                /\ FailedUnsent(deleteGameDNSRecords(a, z, o))
                /\ FailedUnsent(getGameDNSRecords(a, z, o)))
  /\ [][(~isReady /\ pollingInterval = "set") =>
          /\ pollingInterval' = "set"
          /\ \A n \in Invocations : (config.fdm /\ pc[n] = "loop" /\ StepOf(n))
                => (ProcessStep(n) \/ HandleStep(n))]_vars

\* the client is not ready, an iteration has completed and a later one has
\* tried the upsert for both zones of an app
C12_Witness ==
  /\ ~isReady /\ pollingInterval = "set" /\ lastSeenApps # << >>
  /\ Len(gatewayCalls) = Len(Zones)
  /\ \E n \in Invocations : pc[n] = "loop" /\ local[n].cleanMasterIP # Null

C18_FailedUpsertContained ==
  [][\A n \in Invocations :
       (/\ pc[n] = "loop" /\ local[n].matchedApps # << >> /\ StepOf(n)
        /\ \E i \in 1..Len(gatewayCalls') : ~gatewayCalls'[i].ok)
         => /\ ProcessStep(n)
            /\ LET app == Head(local[n].matchedApps)
                   ip  == local'[n].cleanMasterIP
               IN  /\ \A z \in ZoneNames : CacheDiffers(app, z, ip) =>
                         Cardinality(CreatesFor(gatewayCalls', app, z)) = 1
                   /\ \A i \in 1..Len(gatewayCalls') :
                         /\ gatewayCalls'[i].app = app
                         /\ Entry(appsDNSState', app, gatewayCalls'[i].zone) =
                              IF gatewayCalls'[i].ok THEN <<ip>>
                              ELSE Entry(appsDNSState, app, gatewayCalls'[i].zone)
                   /\ \A b \in AppNames \ {app}, z \in ZoneNames :
                         Entry(appsDNSState', b, z) = Entry(appsDNSState, b, z)]_vars

\* the upsert for the first zone failed, the one for the second zone was made
\* and succeeded, and the iteration has a further application to process
C18_Witness ==
  \E n \in Invocations :
     /\ pc[n] = "loop" /\ local[n].matchedApps # << >>
     /\ Len(gatewayCalls) = 2
     /\ gatewayCalls[1].zone = Zones[1].name /\ gatewayCalls[1].sent /\ ~gatewayCalls[1].ok
     /\ gatewayCalls[2].zone = Zones[2].name /\ gatewayCalls[2].ok
     /\ Entry(appsDNSState, gatewayCalls[1].app, Zones[1].name) = Null
     /\ Entry(appsDNSState, gatewayCalls[2].app, Zones[2].name) = gatewayCalls[2].content

\* C19 as stated: whatever happens while one application is processed, the
\* iteration goes on with the remaining applications; it ends only by running
\* removal processing, which replaces lastSeenApps by the set it observed.
C19_PerAppErrorContained ==
  [][\A n \in Invocations :
       (pc[n] = "loop" /\ StepOf(n)) =>
          IF local[n].matchedApps # << >>
            THEN /\ pc'[n] = "loop"
                 /\ local'[n].matchedApps = Tail(local[n].matchedApps)
            ELSE /\ pc'[n] = "idle"
                 /\ lastSeenApps' = local[n].currentSeenApps]_vars

\* C20: an iteration in progress eventually ends with the guard clear; every
\* way out of an iteration (completion, empty inventory, exception) clears the
\* guard and leaves the timer armed; and whenever the guard is clear no
\* invocation is in progress, so the next tick or trigger starts an iteration.
C20_AlwaysReturnsToIdle ==
  /\ isRunning ~> ~isRunning
  /\ [][\A n \in Invocations : (pc[n] # "idle" /\ pc'[n] = "idle")
          => (~isRunning' /\ pollingInterval' = "set")]_vars
  /\ [](~isRunning => Running = {})

\* after time has passed, an iteration of a deployment whose configuration
\* lacks the fdm section is about to process an app, which raises
C20_Witness ==
  /\ ~config.fdm /\ isRunning /\ now = MaxTime
  /\ \E n \in Invocations : pc[n] = "loop" /\ local[n].matchedApps # << >>

\* the application an iteration processed last
LastSeen(n) == local[n].currentSeenApps[Len(local[n].currentSeenApps)]

\* C21: a step of processApp that resolves no endpoint makes no gateway call,
\* leaves appsDNSState and appLastSeenTimestamps as they were and adds the
\* application to the observed set; when the iteration then completes, that
\* application is in lastSeenApps, has no MissingSince entry (none is added, a
\* pending one is cancelled) and keeps its cache entries.
C21_AbsentStillObserved ==
  /\ [][\A n \in Invocations : (ProcessStep(n) /\ local'[n].cleanMasterIP = Null) =>
          /\ gatewayCalls' = << >>
          /\ UNCHANGED <<appsDNSState, appLastSeenTimestamps, lastSeenApps>>
          /\ SetHas(local'[n].currentSeenApps, Head(local[n].matchedApps))]_vars
  /\ [][\A n \in Invocations :
          (HandleStep(n) /\ local[n].currentSeenApps # << >>
             /\ local[n].cleanMasterIP = Null) =>
               /\ SetHas(lastSeenApps', LastSeen(n))
               /\ LastSeen(n) \notin DOMAIN appLastSeenTimestamps'
               /\ \A z \in ZoneNames :
                     Entry(appsDNSState', LastSeen(n), z) = Entry(appsDNSState, LastSeen(n), z)
               /\ DeletesFor(gatewayCalls', LastSeen(n)) = {}]_vars

\* an application that is cached and enrolled as missing is back in the
\* inventory, its endpoint resolved to absent, and the iteration is about to
\* run removal processing
C21_Witness ==
  \E n \in Invocations :
     /\ pc[n] = "loop" /\ local[n].matchedApps = << >>
     /\ local[n].currentSeenApps # << >> /\ local[n].cleanMasterIP = Null
     /\ LastSeen(n) \in DOMAIN appLastSeenTimestamps
     /\ HasDNSState(LastSeen(n))
     /\ gatewayCalls = << >>

\* the applications an iteration in its loop has classified: those it has
\* processed and those it has still to process
Classified(l) == l.currentSeenApps \o l.matchedApps

\* C22: the classified applications of an iteration are fixed when the
\* inventory is filtered, in inventory order and without repetition; the
\* iteration that completes replaces lastSeenApps by exactly that set; and the
\* applications its removal processing enrols are exactly those of the previous
\* lastSeenApps that are not in the observed set, have cached state and have no
\* timestamp yet.
C22_LastSeenReplaced ==
  /\ [][\A n \in Invocations : ProcessStep(n) =>
          Classified(local'[n]) = Classified(local[n])]_vars
  /\ [](\A n \in Invocations : pc[n] = "loop" =>
          /\ Elems(Classified(local[n])) \subseteq {NameMc, NameArk}
          /\ Cardinality(Elems(Classified(local[n]))) = Len(Classified(local[n])))
  /\ [][\A n \in Invocations : HandleStep(n) =>
          /\ lastSeenApps' = Classified(local[n])
          /\ (DOMAIN appLastSeenTimestamps') \ (DOMAIN appLastSeenTimestamps) =
               { a \in Elems(lastSeenApps) \ Elems(local[n].currentSeenApps) :
                    HasDNSState(a) /\ a \notin DOMAIN appLastSeenTimestamps }]_vars
  /\ [][lastSeenApps' # lastSeenApps => \E n \in Invocations : HandleStep(n)]_vars

\* an iteration is about to complete with an observed set that shares one
\* application with lastSeenApps and lacks another of it
C22_Witness ==
  \E n \in Invocations :
     /\ pc[n] = "loop" /\ local[n].matchedApps = << >>
     /\ Len(lastSeenApps) = 2 /\ Len(local[n].currentSeenApps) = 1
     /\ SetHas(lastSeenApps, local[n].currentSeenApps[1])
     /\ \A a \in Elems(lastSeenApps) : HasDNSState(a)

\* the cache st holds at least one zone entry for application a
HasState(st, a) == a \in DOMAIN st /\ DOMAIN st[a] # {}

\* C25: every application with a timestamp in appLastSeenTimestamps has a
\* non-empty entry in appsDNSState; a step gives an application a timestamp only
\* if it has cached state, and a step that removes the cached state of an
\* application removes its timestamp in the same step.
C25_MissingSinceHasState ==
  /\ [](\A a \in DOMAIN appLastSeenTimestamps : HasState(appsDNSState, a))
  /\ [][\A a \in AppNames :
          (a \notin DOMAIN appLastSeenTimestamps /\ a \in DOMAIN appLastSeenTimestamps')
             => (HasState(appsDNSState, a) /\ HasState(appsDNSState', a))]_vars
  /\ [][\A a \in AppNames :
          (HasState(appsDNSState, a) /\ ~HasState(appsDNSState', a))
             => (a \in DOMAIN appLastSeenTimestamps
                 /\ a \notin DOMAIN appLastSeenTimestamps')]_vars

\* two applications with cached records are both missing from the inventory and
\* both enrolled
C25_Witness ==
  /\ DOMAIN appLastSeenTimestamps = {NameMc, NameArk}
  /\ HasState(appsDNSState, NameMc)
  /\ HasState(appsDNSState, NameArk)

\* C26: every upsert sent to the gateway for (app, zone) carries, in the body
\* of the POST, the ttl configured for that zone.
C26_UpsertCarriesZoneTtl ==
  \A i \in 1..Len(gatewayCalls) :
     (gatewayCalls[i].op = "create" /\ gatewayCalls[i].sent) =>
        \E k \in 1..Len(Zones) :
           /\ Zones[k].name = gatewayCalls[i].zone
           /\ gatewayCalls[i].ttl = [defined |-> TRUE, value |-> Zones[k].ttl]

(***************************************************************************)
(* Properties of removal processing (SpecRemoval)                          *)
(***************************************************************************)
\* C23: an application is enrolled with the time of the iteration that finds it
\* missing, also when an earlier timestamp of it was cancelled by its
\* reappearance: a timestamp is never older than the last reappearance, a
\* reappearance leaves no timestamp, and a delete is issued only for a
\* timestamp that is gracePeriod old.
C23_NoPartialGrace ==
  /\ [](\A a \in DOMAIN appLastSeenTimestamps :
          probe.reappearedAt[a] <= appLastSeenTimestamps[a])
  /\ [][\A a \in MatchedNames :
          /\ (a \notin DOMAIN appLastSeenTimestamps /\ a \in DOMAIN appLastSeenTimestamps')
               => appLastSeenTimestamps'[a] = now
          /\ (probe'.reappearedAt[a] # probe.reappearedAt[a])
               => a \notin DOMAIN appLastSeenTimestamps'
          /\ (lastSeenApps' # lastSeenApps \/ gatewayCalls' # gatewayCalls)
               => \A i \in DeletesFor(gatewayCalls', a) :
                     /\ a \in DOMAIN appLastSeenTimestamps
                     /\ now - appLastSeenTimestamps[a] >= GracePeriod]_vars

\* an application was enrolled, reappeared at time 1 and was found missing again
\* at the last time of the clock, which is its timestamp
C23_Witness ==
  \E a \in DOMAIN appLastSeenTimestamps :
     /\ probe.reappearedAt[a] = 1
     /\ appLastSeenTimestamps[a] = MaxTime /\ now = MaxTime

(***************************************************************************)
(* Properties of the loop as its own retry (SpecRetry)                     *)
(***************************************************************************)
\* the cache entry of the application for zone z is the endpoint
Settled(st, z) ==
  /\ RetryApp \in DOMAIN st
  /\ z \in DOMAIN st[RetryApp]
  /\ st[RetryApp][z] = <<RetryIP>>

Converged == \A z \in ZoneNames : Settled(appsDNSState, z)

\* C24: every iteration attempts the upsert for each zone whose cache entry is
\* not the endpoint (so a failed upsert is attempted again by the next
\* iteration) and for no other zone; eventually every zone's entry is the
\* endpoint and stays so, and from then on no upsert is issued.
C24_LoopIsRetry ==
  /\ <>[]Converged
  /\ [][\A n \in Invocations :
          ProcessStep(n) /\ Head(local[n].matchedApps) = RetryApp =>
             \A z \in ZoneNames :
                Cardinality(CreatesFor(gatewayCalls', RetryApp, z)) =
                   IF Settled(appsDNSState, z) THEN 0 ELSE 1]_vars
  /\ [][Converged =>
          /\ \A z \in ZoneNames : Settled(appsDNSState', z)
          /\ \A i \in 1..Len(gatewayCalls') : gatewayCalls'[i].app # RetryApp]_vars

\* an iteration has completed in which the upsert for the first zone failed and
\* the one for the second zone succeeded, and the next iteration has begun
C24_Witness ==
  /\ SetHas(lastSeenApps, RetryApp)
  /\ ~Settled(appsDNSState, Zones[1].name)
  /\ Settled(appsDNSState, Zones[2].name)
  /\ \E n \in Invocations : pc[n] = "fetch"

====
